---- MODULE Spec2Model ----
(***************************************************************************)
(* Model of django-newsletter (newsletter/abstract_models.py, models.py):  *)
(*   - AbstractSubscription.save / update / _subscribe / _unsubscribe      *)
(*   - AbstractSubmission.submit_queue / submit / send_message /           *)
(*     from_message                                                        *)
(*   - AbstractArticle.save, AbstractMessage.get_next_article_sortorder    *)
(*   - AbstractNewsletter.get_templates, AbstractMessage._templates        *)
(* Rows of the relational tables are records; an unsaved or missing row is *)
(* NoRow.  Python None is the integer None for dates and sort orders and   *)
(* the string NullEmail for the e-mail column.                             *)
(* message_model is the configured message model.  The default,            *)
(* models.Message, derives from AbstractArticle; the specifications of     *)
(* submissions start with a model derived from AbstractMessage swapped in  *)
(* (it has the newsletter and the templates submit() and save() read),     *)
(* SpecContent starts with either.                                         *)
(***************************************************************************)
EXTENDS Integers, Sequences, FiniteSets, TLC

\* ---------------------------------------------------------------- bounds
NumSubscriptions == 2
NumSubmissions == 2
MaxTime == 2
MaxPolls == 2
MaxNewSubscriptions == 1
MaxFailures == 1
MaxArticles == 2

SubIds == 1..NumSubscriptions
SubmissionIds == 1..NumSubmissions
Pollers == {1, 2}

None == -1
NullEmail == "NULL"
NoUser == 0
Users == {NoUser, 1}
Emails == {NullEmail, "", "a@example.org"}
NoRow == [pk |-> 0]

VARIABLES
    clock,          \* django.utils.timezone.now()
    subscription,   \* table newsletter_subscription: SubIds -> row or NoRow
    lastsave,       \* history: the latest Subscription.save() call
    lastupdate,     \* history: the action of the update() call that made the
                    \* latest save(), "none" when save() was called directly
    submission,     \* table newsletter_submission: SubmissionIds -> row
    outbox,         \* e-mails delivered: SubmissionIds -> SubIds -> count
    pc,             \* per poller: position in submit_queue / submit
    todo,           \* per poller: the evaluated queryset of submit_queue
    self,           \* per poller: the in-memory Submission inside submit()
    recipients,     \* per poller: the rest of the evaluated recipient queryset
    runlog,         \* history, per poller: <<recipient, outcome>> of this submit()
    polls,          \* per poller: submit_queue calls made
    failures,       \* exceptions raised so far in the recipient loops
    snap,           \* history, per poller: the tables when submit_queue selected
    runs,           \* history, per submission: how its latest submit() ended,
                    \* the runs that aborted, the runs begun on a stale row
    message_model,  \* the setting NEWSLETTER_MESSAGE_MODEL
    article,        \* table newsletter_article: per message, the sortorders
                    \* of its articles in the order they were saved
    lastarticle,    \* history: the latest Article.save() call
    templates       \* history: the latest Newsletter.get_templates() call

subscriptionVars == <<subscription, lastsave, lastupdate>>
deliveryVars == <<submission, outbox, pc, todo, self, recipients, runlog,
                  polls, failures, snap, runs>>
contentVars == <<message_model, article, lastarticle, templates>>
vars == <<clock, subscription, lastsave, lastupdate, submission, outbox, pc,
          todo, self, recipients, runlog, polls, failures, snap, runs, message_model,
          article, lastarticle, templates>>

\* ------------------------------------------------------------ Subscription

\* Python truthiness of the user foreign key and of the e-mail column.
UserSet(inst) == inst.user # NoUser
EmailSet(inst) == inst.email_field \notin {NullEmail, ""}

\* Mutant: only the first assertion of save().
IdentityOkFirstAssertOnly(inst) == UserSet(inst) \/ EmailSet(inst)

\* The two assertions opening save().
IdentityOk(inst) ==
    /\ UserSet(inst) \/ EmailSet(inst)
    /\ \/ UserSet(inst) /\ ~EmailSet(inst)
       \/ EmailSet(inst) /\ ~UserSet(inst)

\* Mutant: _subscribe() without the reset of the unsubscribe fields.
SubscribeKeepingUnsubscribed(inst, t) ==
    [inst EXCEPT !.subscribe_date = t, !.subscribed = TRUE]

\* _subscribe()
Subscribe(inst, t) ==
    [inst EXCEPT !.subscribe_date = t, !.subscribed = TRUE,
                 !.unsubscribed = FALSE, !.unsubscribe_date = None]

\* _unsubscribe()
Unsubscribe(inst, t) ==
    [inst EXCEPT !.subscribed = FALSE, !.unsubscribed = TRUE,
                 !.unsubscribe_date = t]

\* The flag comparison of save(): old is the stored row, NoRow when pk is unset.
Transition(inst, old, t) ==
    IF old # NoRow
    THEN IF \/ inst.subscribed /\ ~old.subscribed
            \/ old.unsubscribed /\ ~inst.unsubscribed
         THEN Subscribe(inst, t)
         ELSE IF \/ inst.unsubscribed /\ ~old.unsubscribed
                 \/ old.subscribed /\ ~inst.subscribed
              THEN Unsubscribe(inst, t)
              ELSE inst
    ELSE IF inst.subscribed
         THEN Subscribe(inst, t)
         ELSE IF inst.unsubscribed
              THEN Unsubscribe(inst, t)
              ELSE inst

\* unique_together (user, email_field, newsletter): SQL NULLs never collide.
UniqueViolation(inst, table) ==
    \E j \in SubIds :
        /\ j # inst.pk
        /\ table[j] # NoRow
        /\ inst.user # NoUser /\ inst.email_field # NullEmail
        /\ table[j].user = inst.user
        /\ table[j].email_field = inst.email_field
        /\ table[j].newsletter = inst.newsletter

\* A new, unsaved instance with the field defaults.
NewInstance(pk, user, email, nl) ==
    [pk |-> pk, user |-> user, email_field |-> email, newsletter |-> nl,
     subscribed |-> FALSE, unsubscribed |-> FALSE,
     subscribe_date |-> None, unsubscribe_date |-> None]

\* self.Subscription, which save() evaluates when self.pk is set, is no
\* attribute of AbstractSubscription (it defines the property Newsletter
\* only; the property Subscription is AbstractNewsletter's) nor of
\* models.Subscription: the lookup raises AttributeError.
SubscriptionLookupRaises == TRUE

\* How save() of inst ends; old is the stored row, NoRow when pk is unset.
SaveResult(inst, old) ==
    IF ~IdentityOk(inst) THEN "AssertionError"
    ELSE IF old # NoRow /\ SubscriptionLookupRaises THEN "AttributeError"
    ELSE IF UniqueViolation(inst, subscription) THEN "IntegrityError"
    ELSE "saved"

\* Mutant: Model.save() without the override, the instance is written as it
\* is.
SaveSubscriptionPlain(inst, old) ==
    /\ subscription' = [subscription EXCEPT ![inst.pk] = inst]
    /\ lastsave' = [pk |-> inst.pk, old |-> old, inst |-> inst,
                    result |-> "saved", at |-> clock]

\* Mutant: save() that takes every instance for a new one: the stored row
\* is not looked up and the dates are set from the flags alone.
SaveSubscriptionAsNew(inst, old) ==
    LET result == SaveResult(inst, NoRow)
    IN /\ subscription' = IF result = "saved"
                          THEN [subscription EXCEPT ![inst.pk] =
                                   Transition(inst, NoRow, clock)]
                          ELSE subscription
       /\ lastsave' = [pk |-> inst.pk, old |-> old, inst |-> inst,
                       result |-> result, at |-> clock]

\* save() of instance inst for primary key inst.pk: the row is written by
\* super().save() when nothing was raised before.
SaveSubscription(inst, old) ==
    LET t == clock
        result == SaveResult(inst, old)
        row == Transition(inst, old, t)
    IN /\ subscription' = IF result = "saved"
                          THEN [subscription EXCEPT ![inst.pk] = row]
                          ELSE subscription
       /\ lastsave' = [pk |-> inst.pk, old |-> old, inst |-> inst,
                       result |-> result, at |-> t]

\* Subscription(...).save() of a new instance: the next primary key is used.
NextPk == Cardinality({i \in SubIds : subscription[i] # NoRow}) + 1

SaveNew ==
    \E user \in Users, email \in Emails, s \in BOOLEAN, u \in BOOLEAN :
        /\ NextPk \in SubIds /\ NextPk <= MaxNewSubscriptions
        /\ SaveSubscription(
               [NewInstance(NextPk, user, email, 1)
                   EXCEPT !.subscribed = s, !.unsubscribed = u], NoRow)
        /\ lastupdate' = "none"
        /\ UNCHANGED <<clock, deliveryVars, contentVars>>

\* Load a stored row, assign identity and flags, save().
SaveExisting ==
    \E i \in SubIds, user \in Users, email \in Emails,
       s \in BOOLEAN, u \in BOOLEAN :
        /\ subscription[i] # NoRow
        /\ SaveSubscription(
               [subscription[i] EXCEPT !.user = user, !.email_field = email,
                                       !.subscribed = s, !.unsubscribed = u],
               subscription[i])
        /\ lastupdate' = "none"
        /\ UNCHANGED <<clock, deliveryVars, contentVars>>

UpdateActions == {"subscribe", "update", "unsubscribe", "activate"}

\* The flag update(action) sets before it calls save().
UpdateInstance(inst, action) ==
    IF action = "subscribe" \/ action = "update"
    THEN [inst EXCEPT !.subscribed = TRUE]
    ELSE [inst EXCEPT !.unsubscribed = TRUE]

\* update(action) of inst; an action outside the three fails the assertion.
UpdateSubscription(inst, old, action) ==
    IF action \in {"subscribe", "update", "unsubscribe"}
    THEN SaveSubscription(UpdateInstance(inst, action), old)
    ELSE /\ subscription' = subscription
         /\ lastsave' = [pk |-> inst.pk, old |-> old, inst |-> inst,
                         result |-> "AssertionError", at |-> clock]

\* update(action) on a new, unsaved instance.
UpdateNew ==
    \E user \in Users, email \in Emails, action \in UpdateActions :
        /\ NextPk \in SubIds /\ NextPk <= MaxNewSubscriptions
        /\ UpdateSubscription(NewInstance(NextPk, user, email, 1), NoRow, action)
        /\ lastupdate' = action
        /\ UNCHANGED <<clock, deliveryVars, contentVars>>

\* update(action) on a freshly loaded row.
Update ==
    \E i \in SubIds, action \in UpdateActions :
        /\ subscription[i] # NoRow
        /\ UpdateSubscription(subscription[i], subscription[i], action)
        /\ lastupdate' = action
        /\ UNCHANGED <<clock, deliveryVars, contentVars>>

Tick ==
    /\ clock < MaxTime
    /\ clock' = clock + 1
    /\ UNCHANGED <<subscriptionVars, deliveryVars, contentVars>>

NoSave == [pk |-> 0, old |-> NoRow, inst |-> NoRow, result |-> "none",
           at |-> None]

\* ---------------------------------------------------------------- Submission

\* Mutant: the filter without sending=False.
SelectedIgnoringSending(row, t) ==
    /\ row.prepared
    /\ ~row.sent
    /\ row.publish_date # None
    /\ row.publish_date < t

\* Mutant: the filter without sent=False.
SelectedIgnoringSent(row, t) ==
    /\ row.prepared
    /\ ~row.sending
    /\ row.publish_date # None
    /\ row.publish_date < t

\* Mutant: the filter without prepared=True.
SelectedIgnoringPrepared(row, t) ==
    /\ ~row.sent
    /\ ~row.sending
    /\ row.publish_date # None
    /\ row.publish_date < t

\* The rows submit_queue's filter() returns at time t (NULL dates never match).
Selected(row, t) ==
    /\ row.prepared
    /\ ~row.sent
    /\ ~row.sending
    /\ row.publish_date # None
    /\ row.publish_date < t

\* The in-memory model instance loaded from row s.
Instance(s, row) ==
    [id |-> s, prepared |-> row.prepared, sent |-> row.sent,
     sending |-> row.sending, publish_date |-> row.publish_date]

\* Model.save() writes every column of the instance; the many-to-many
\* recipients and the newsletter (taken from the message) stay as stored.
SavedRow(row, inst) ==
    [row EXCEPT !.prepared = inst.prepared, !.sent = inst.sent,
                !.sending = inst.sending, !.publish_date = inst.publish_date]

RECURSIVE InOrder(_)
\* A queryset evaluated in primary-key order.
InOrder(S) ==
    IF S = {} THEN <<>>
    ELSE LET m == CHOOSE x \in S : \A y \in S : x <= y
         IN <<m>> \o InOrder(S \ {m})

\* Mutant: recipients already mailed for this submission are left out.
RecipientSetNotYetMailed(s) ==
    {r \in submission[s].subscriptions :
        subscription[r] # NoRow /\ subscription[r].subscribed
        /\ outbox[s][r] = 0}

\* Mutant: the subscribers of the newsletter instead of the attached ones.
RecipientSetOfNewsletter(s) ==
    {r \in SubIds :
        /\ subscription[r] # NoRow
        /\ subscription[r].subscribed
        /\ subscription[r].newsletter = submission[s].newsletter}

\* self.subscriptions.filter(subscribed=True) in submit().
RecipientSet(s) ==
    {r \in submission[s].subscriptions :
        subscription[r] # NoRow /\ subscription[r].subscribed}

\* Mutant: submit() without its assertion.
PublishDateUnchecked(inst, t) == TRUE

\* The assertion of submit(): publish_date < now().
PublishDatePast(inst, t) == inst.publish_date # None /\ inst.publish_date < t

\* What the assert statement of submit() raises when it does not pass:
\* None < now() is a TypeError.
SubmitRaises(inst, t) ==
    IF inst.publish_date = None THEN "TypeError" ELSE "AssertionError"

\* self.sending = True
SetSending(inst) == [inst EXCEPT !.sending = TRUE]

\* Mutant: the loop ends without self.sent = True.
MarkSentForgotten(inst) == inst

\* self.sent = True
MarkSent(inst) == [inst EXCEPT !.sent = TRUE]

\* Mutant: no finally block, sending is never reset.
ClearSendingForgotten(inst) == inst

\* finally: self.sending = False
ClearSending(inst) == [inst EXCEPT !.sending = FALSE]

\* What one pass of the recipient loop can do: the mail is sent ("ok"),
\* message.send() raises inside send_message's try ("send_failed"), or
\* something before that try raises: rendering, attach_file, sleep ("raised").
Outcomes == {"ok", "send_failed", "raised"}
Delivers(o) == o = "ok"
\* Mutant: send_message without its try/except, every failure escapes.
EscapesAnyFailure(o) == o # "ok"

\* Mutant: send_message catching everything it does.
EscapesNothing(o) == FALSE

\* send_message catches what message.send() raises and nothing else.
Escapes(o) == o = "raised"

Aborted(log) == log # <<>> /\ Escapes(log[Len(log)][2])

RECURSIVE Sum(_, _)
Sum(f, S) ==
    IF S = {} THEN 0
    ELSE LET x == CHOOSE y \in S : TRUE IN f[x] + Sum(f, S \ {x})

PollsMade == Sum(polls, Pollers)

\* cls.objects.filter(prepared=True, sent=False, sending=False,
\*                    publish_date__lt=now()), evaluated by the for loop.
SubmitQueue(p) ==
    /\ pc[p] = "idle"
    /\ PollsMade < MaxPolls
    /\ polls' = [polls EXCEPT ![p] = @ + 1]
    /\ todo' = [todo EXCEPT ![p] =
                  LET ids == InOrder({s \in SubmissionIds :
                                         Selected(submission[s], clock)})
                  IN [k \in 1..Len(ids) |-> Instance(ids[k], submission[ids[k]])]]
    /\ snap' = [snap EXCEPT ![p] = [db |-> submission, out |-> outbox,
                                    now |-> clock, called |-> {}]]
    /\ pc' = [pc EXCEPT ![p] = "queue"]
    /\ UNCHANGED <<clock, contentVars, subscriptionVars,
                   submission, outbox, self,
                   recipients, runlog, failures, runs>>

\* for submission in todo: submission.submit()
QueueNext(p) ==
    /\ pc[p] = "queue"
    /\ todo[p] # <<>>
    /\ self' = [self EXCEPT ![p] = Head(todo[p])]
    /\ todo' = [todo EXCEPT ![p] = Tail(@)]
    /\ snap' = [snap EXCEPT ![p].called = @ \cup {Head(todo[p]).id}]
    /\ runlog' = [runlog EXCEPT ![p] = <<>>]
    /\ pc' = [pc EXCEPT ![p] = "submit"]
    /\ UNCHANGED <<clock, contentVars, subscriptionVars,
                   submission, outbox, recipients,
                   polls, failures, runs>>

\* The for loop of submit_queue is exhausted: submit_queue returns and its
\* locals are gone.
QueueReturn(p) ==
    /\ pc[p] = "queue"
    /\ todo[p] = <<>>
    /\ pc' = [pc EXCEPT ![p] = "idle"]
    /\ self' = [self EXCEPT ![p] = NoRow]
    /\ runlog' = [runlog EXCEPT ![p] = <<>>]
    /\ UNCHANGED <<clock, contentVars, subscriptionVars,
                   submission, outbox, todo,
                   recipients, polls, failures, snap, runs>>

\* submit() up to the first save: the assertion, sending = True, save().
\* A failed assertion leaves submit() and submit_queue, which catches nothing.
Submit(p) ==
    /\ pc[p] = "submit"
    /\ IF PublishDatePast(self[p], clock)
       THEN /\ self' = [self EXCEPT ![p] = SetSending(@)]
            /\ submission' = [submission EXCEPT ![self[p].id] =
                                 SavedRow(@, SetSending(self[p]))]
            /\ runs' = [runs EXCEPT ![self[p].id].stale =
                           IF Instance(self[p].id, submission[self[p].id]) = self[p]
                           THEN @ ELSE @ + 1]
            /\ pc' = [pc EXCEPT ![p] = "iterate"]
            /\ todo' = todo
            /\ runlog' = runlog
       ELSE /\ pc' = [pc EXCEPT ![p] = "idle"]
            /\ todo' = [todo EXCEPT ![p] = <<>>]
            /\ runlog' = [runlog EXCEPT ![p] =
                             <<<<0, SubmitRaises(self[p], clock)>>>>]
            /\ UNCHANGED <<self, submission, runs>>
    /\ UNCHANGED <<clock, contentVars, subscriptionVars,
                   outbox, recipients, polls, failures, snap>>

\* submission.submit() called on a stored submission by another caller than
\* submit_queue.
SubmitDirect(p) ==
    /\ pc[p] = "idle"
    /\ PollsMade < MaxPolls
    /\ \E s \in SubmissionIds :
        /\ submission[s] # NoRow
        /\ self' = [self EXCEPT ![p] = Instance(s, submission[s])]
    /\ polls' = [polls EXCEPT ![p] = @ + 1]
    /\ todo' = [todo EXCEPT ![p] = <<>>]
    /\ runlog' = [runlog EXCEPT ![p] = <<>>]
    /\ pc' = [pc EXCEPT ![p] = "submit"]
    /\ UNCHANGED <<clock, contentVars, subscriptionVars,
                   submission, outbox, recipients, failures, snap, runs>>

\* enumerate(subscriptions) evaluates the recipient queryset, inside the try.
Iterate(p) ==
    /\ pc[p] = "iterate"
    /\ \E o \in {"ok", "raised"} :
        /\ o = "ok" \/ failures < MaxFailures
        /\ failures' = IF o = "ok" THEN failures ELSE failures + 1
        /\ IF Escapes(o)
           THEN /\ runlog' = [runlog EXCEPT ![p] = <<<<0, o>>>>]
                /\ pc' = [pc EXCEPT ![p] = "finally"]
                /\ UNCHANGED recipients
           ELSE /\ recipients' = [recipients EXCEPT ![p] =
                      InOrder(RecipientSet(self[p].id))]
                /\ pc' = [pc EXCEPT ![p] = "loop"]
                /\ UNCHANGED runlog
    /\ UNCHANGED <<clock, contentVars, subscriptionVars,
                   submission, outbox, todo, self,
                   polls, snap, runs>>

\* One pass of the loop body: the sleeps and self.send_message(subscription).
SendMessage(p) ==
    /\ pc[p] = "loop"
    /\ recipients[p] # <<>>
    /\ \E o \in Outcomes :
        LET r == Head(recipients[p]) IN
        /\ o = "ok" \/ failures < MaxFailures
        /\ failures' = IF o = "ok" THEN failures ELSE failures + 1
        /\ runlog' = [runlog EXCEPT ![p] = Append(@, <<r, o>>)]
        /\ outbox' = IF Delivers(o)
                     THEN [outbox EXCEPT ![self[p].id][r] = @ + 1]
                     ELSE outbox
        /\ IF Escapes(o)
           THEN /\ pc' = [pc EXCEPT ![p] = "finally"]
                /\ UNCHANGED recipients
           ELSE /\ recipients' = [recipients EXCEPT ![p] = Tail(@)]
                /\ UNCHANGED pc
    /\ UNCHANGED <<clock, contentVars, subscriptionVars,
                   submission, todo, self, polls,
                   snap, runs>>

\* The loop ran to its end: self.sent = True.
LoopEnd(p) ==
    /\ pc[p] = "loop"
    /\ recipients[p] = <<>>
    /\ self' = [self EXCEPT ![p] = MarkSent(@)]
    /\ pc' = [pc EXCEPT ![p] = "finally"]
    /\ UNCHANGED <<clock, contentVars, subscriptionVars,
                   submission, outbox, todo,
                   recipients, runlog, polls, failures, snap, runs>>

\* finally: self.sending = False; self.save().  submit() returns.
Finally(p) ==
    /\ pc[p] = "finally"
    /\ self' = [self EXCEPT ![p] = ClearSending(@)]
    /\ submission' = [submission EXCEPT ![self[p].id] =
                         SavedRow(@, ClearSending(self[p]))]
    /\ runs' = [runs EXCEPT ![self[p].id] =
                   IF Aborted(runlog[p])
                   THEN [@ EXCEPT !.ended = "aborted", !.aborted = @ + 1]
                   ELSE [@ EXCEPT !.ended = "completed"]]
    /\ pc' = [pc EXCEPT ![p] = "queue"]
    /\ UNCHANGED <<clock, contentVars, subscriptionVars,
                   outbox, todo, recipients, runlog,
                   polls, failures, snap>>

\* ------------------------------------------------------------------ content

NewsletterIds == {1, 2}
MessageIds == {1, 2}

\* NEWSLETTER_MESSAGE_MODEL: "newsletter.Message" unless the settings name
\* another model, which is then a model derived from AbstractMessage.
DefaultMessageModel == "newsletter.Message"
SwappedMessageModel == "AbstractMessage"
MessageModels == {DefaultMessageModel, SwappedMessageModel}

\* models.Message derives from AbstractArticle, not from AbstractMessage: it
\* has no get_next_article_sortorder, no newsletter and no _templates.
IsAbstractMessage(model) == model # DefaultMessageModel

\* self.articles.aggregate(Max('sortorder')): None without articles.
MaxSortorder(orders) ==
    IF orders = <<>> THEN None
    ELSE CHOOSE x \in {orders[k] : k \in 1..Len(orders)} :
             \A k \in 1..Len(orders) : orders[k] <= x

\* get_next_article_sortorder(): a maximum of None or 0 is falsy.
GetNextArticleSortorder(orders) ==
    LET next_order == MaxSortorder(orders)
    IN IF next_order # None /\ next_order # 0 THEN next_order + 10 ELSE 10

\* The sort orders an Article is constructed with; None when left out.
Sortorders == {None, 0, 15}

\* Article.save() of a new article of message post, constructed with the
\* sortorder given: how it ends and the sortorder it stores.
ArticleSave(model, orders, given) ==
    IF given = None /\ ~IsAbstractMessage(model)
    THEN [result |-> "AttributeError", sortorder |-> None]
    ELSE LET sortorder == IF given = None
                          THEN GetNextArticleSortorder(orders)
                          ELSE given
         IN IF \E k \in 1..Len(orders) : orders[k] = sortorder
            THEN [result |-> "IntegrityError", sortorder |-> sortorder]
            ELSE [result |-> "saved", sortorder |-> sortorder]

SaveArticle ==
    \E post \in MessageIds, given \in Sortorders :
        LET done == ArticleSave(message_model, article[post], given) IN
        /\ Len(article[post]) < MaxArticles
        /\ article' = IF done.result = "saved"
                      THEN [article EXCEPT ![post] = Append(@, done.sortorder)]
                      ELSE article
        /\ lastarticle' = [post |-> post, given |-> given,
                           before |-> article[post], result |-> done.result]
        /\ UNCHANGED <<clock, subscriptionVars, deliveryVars, message_model,
                       templates>>

NoArticleSave == [post |-> 0, given |-> None, before |-> <<>>,
                  result |-> "none"]

\* utils.ACTIONS, the actions a subscriber confirms.
UtilsACTIONS == {"subscribe", "unsubscribe", "update"}

\* Mutant: the assertion of get_templates without + ('message',).
TemplateActionsWithoutMessage == UtilsACTIONS

\* ACTIONS + ('message',)
TemplateActions == UtilsACTIONS \cup {"message"}

ActionInputs == TemplateActions \cup {"activate", "Message"}

\* What select_template finds for the two paths it is given: the template
\* of the newsletter, the common one, or neither.
Found == {"newsletter", "common", "missing"}

TemplatePath(found, slug, action, suffix) ==
    IF found = "newsletter"
    THEN <<"newsletter/message/", slug, action, suffix>>
    ELSE <<"newsletter/message/", action, suffix>>

\* get_templates(action) of the newsletter slug.
GetTemplatesResult(slug, send_html, action, found) ==
    IF action \notin TemplateActions
    THEN [raised |-> "AssertionError"]
    ELSE IF found = "missing"
         THEN [raised |-> "TemplateDoesNotExist"]
         ELSE [raised |-> "none",
               subject |-> TemplatePath(found, slug, action, "_subject.txt"),
               text |-> TemplatePath(found, slug, action, ".txt"),
               html |-> IF send_html
                        THEN TemplatePath(found, slug, action, ".html")
                        ELSE <<>>]

GetTemplates ==
    \E slug \in NewsletterIds, send_html \in BOOLEAN,
       action \in ActionInputs, found \in Found :
        /\ templates' = [caller |-> "get_templates", action |-> action,
                         result |-> GetTemplatesResult(slug, send_html,
                                                       action, found)]
        /\ UNCHANGED <<clock, subscriptionVars, deliveryVars, message_model,
                       article, lastarticle>>

\* message._templates of a message of the newsletter slug.
MessageTemplates ==
    \E slug \in NewsletterIds, send_html \in BOOLEAN, found \in Found :
        /\ templates' = [caller |-> "_templates", action |-> "message",
                         result |-> IF IsAbstractMessage(message_model)
                                    THEN GetTemplatesResult(slug, send_html,
                                                            "message", found)
                                    ELSE [raised |-> "AttributeError"]]
        /\ UNCHANGED <<clock, subscriptionVars, deliveryVars, message_model,
                       article, lastarticle>>

NoTemplates == [caller |-> "none", action |-> "", result |-> [raised |-> "none"]]

IdleDelivery ==
    /\ outbox = [s \in SubmissionIds |-> [r \in SubIds |-> 0]]
    /\ pc = [p \in Pollers |-> "idle"]
    /\ todo = [p \in Pollers |-> <<>>]
    /\ self = [p \in Pollers |-> NoRow]
    /\ recipients = [p \in Pollers |-> <<>>]
    /\ runlog = [p \in Pollers |-> <<>>]
    /\ polls = [p \in Pollers |-> 0]
    /\ failures = 0
    /\ snap = [p \in Pollers |-> NoRow]
    /\ runs = [s \in SubmissionIds |->
                 [ended |-> "none", aborted |-> 0, stale |-> 0]]

\* A deployment with a message model derived from AbstractMessage and
\* nothing saved or looked up yet.
IdleContent ==
    /\ message_model = SwappedMessageModel
    /\ article = [m \in MessageIds |-> <<>>]
    /\ lastarticle = NoArticleSave
    /\ templates = NoTemplates

InitContent ==
    /\ clock = 1
    /\ subscription = [i \in SubIds |-> NoRow]
    /\ lastsave = NoSave
    /\ lastupdate = "none"
    /\ submission = [s \in SubmissionIds |->
                       [prepared |-> FALSE, sent |-> FALSE, sending |-> FALSE,
                        publish_date |-> None, subscriptions |-> {},
                        newsletter |-> 1]]
    /\ IdleDelivery
    /\ message_model \in MessageModels
    /\ article = [m \in MessageIds |-> <<>>]
    /\ lastarticle = NoArticleSave
    /\ templates = NoTemplates

NextContent ==
    \/ SaveArticle
    \/ GetTemplates
    \/ MessageTemplates

SpecContent == InitContent /\ [][NextContent]_vars

\* -------------------------------------------------- subscription lifecycle

InitSubscription ==
    /\ clock = 1
    /\ subscription = [i \in SubIds |-> NoRow]
    /\ lastsave = NoSave
    /\ lastupdate = "none"
    /\ submission = [s \in SubmissionIds |->
                       [prepared |-> FALSE, sent |-> FALSE, sending |-> FALSE,
                        publish_date |-> None, subscriptions |-> {},
                        newsletter |-> 1]]
    /\ IdleDelivery
    /\ IdleContent

NextSubscription ==
    \/ SaveNew
    \/ SaveExisting
    \/ UpdateNew
    \/ Update
    \/ Tick

SpecSubscription == InitSubscription /\ [][NextSubscription]_vars

\* ------------------------------------------------------------- delivery

\* Stored subscriptions as save() leaves them: of user i, saved at time 0 as
\* subscribed or as unsubscribed.
StoredSubscription(i, subscribed) ==
    LET inst == NewInstance(i, i, NullEmail, 1)
    IN IF subscribed
       THEN Transition([inst EXCEPT !.subscribed = TRUE], NoRow, 0)
       ELSE Transition([inst EXCEPT !.unsubscribed = TRUE], NoRow, 0)

\* Everybody is subscribed, or everybody but the latest subscriber.
SubscribedChoices == {SubIds, SubIds \ {NumSubscriptions}}

SubmissionRow(prepared, sent, sending, date, attached) ==
    [prepared |-> prepared, sent |-> sent, sending |-> sending,
     publish_date |-> date, subscriptions |-> attached, newsletter |-> 1]

\* One stored submission per lifecycle status and publish-date case.
SubmissionChoices ==
    {SubmissionRow(TRUE, FALSE, FALSE, 0, a) : a \in {{}, {1}, SubIds}}
    \cup {SubmissionRow(FALSE, FALSE, FALSE, 0, SubIds),
          SubmissionRow(TRUE, TRUE, FALSE, 0, SubIds),
          SubmissionRow(TRUE, FALSE, TRUE, 0, SubIds),
          SubmissionRow(TRUE, FALSE, FALSE, 1, SubIds),
          SubmissionRow(TRUE, FALSE, FALSE, MaxTime, SubIds),
          SubmissionRow(TRUE, FALSE, FALSE, None, SubIds)}

Init ==
    /\ clock = 1
    /\ subscription \in {[i \in SubIds |-> StoredSubscription(i, i \in S)] :
                            S \in SubscribedChoices}
    /\ lastsave = NoSave
    /\ lastupdate = "none"
    /\ submission \in [SubmissionIds -> SubmissionChoices]
    /\ IdleDelivery
    /\ IdleContent

Poll(p) ==
    \/ SubmitQueue(p)
    \/ QueueNext(p)
    \/ QueueReturn(p)
    \/ Submit(p)
    \/ Iterate(p)
    \/ SendMessage(p)
    \/ LoopEnd(p)
    \/ Finally(p)

\* One scheduler: a single submit_queue poller.
Next ==
    \/ Poll(1)
    \/ Tick

Spec == Init /\ [][Next]_vars

\* Two overlapping submit_queue pollers and one prepared, due submission;
\* the other submissions were sent before.
InitConcurrent ==
    /\ clock = 1
    /\ subscription \in {[i \in SubIds |-> StoredSubscription(i, i \in S)] :
                            S \in SubscribedChoices}
    /\ lastsave = NoSave
    /\ lastupdate = "none"
    /\ submission \in {[s \in SubmissionIds |->
                            IF s = 1 THEN r
                            ELSE SubmissionRow(TRUE, TRUE, FALSE, 0, SubIds)] :
                        r \in {c \in SubmissionChoices : Selected(c, 1)}}
    /\ IdleDelivery
    /\ IdleContent

NextConcurrent ==
    \/ \E p \in Pollers : Poll(p)
    \/ Tick

SpecConcurrent == InitConcurrent /\ [][NextConcurrent]_vars

\* ------------------------------------------------------- direct submission

\* newsletter.get_subscriptions()
GetSubscriptions(nl) ==
    {r \in SubIds : /\ subscription[r] # NoRow
                    /\ subscription[r].newsletter = nl
                    /\ subscription[r].subscribed}

NextSubmissionId ==
    Cardinality({s \in SubmissionIds : submission[s] # NoRow}) + 1

\* Submission.from_message(message) for a message of newsletter nl: the
\* field defaults (publish_date = now), save(), subscriptions.set(...).
FromMessage(nl) ==
    /\ NextSubmissionId \in SubmissionIds
    /\ submission' = [submission EXCEPT ![NextSubmissionId] =
                         [prepared |-> FALSE, sent |-> FALSE,
                          sending |-> FALSE, publish_date |-> clock,
                          subscriptions |-> GetSubscriptions(nl),
                          newsletter |-> nl]]
    /\ UNCHANGED <<clock, contentVars, subscriptionVars, outbox, pc, todo,
                   self, recipients, runlog, polls, failures, snap, runs>>

\* A new subscriber of newsletter nl:
\* Subscription(user=..., newsletter=nl).update('subscribe').
NewSubscriber(nl) ==
    /\ NextPk \in SubIds
    /\ UpdateSubscription(NewInstance(NextPk, NextPk, NullEmail, nl),
                          NoRow, "subscribe")
    /\ lastupdate' = "subscribe"
    /\ UNCHANGED <<clock, deliveryVars, contentVars>>

\* One stored subscription, of either newsletter, and one submission to it
\* that is due in the future or has no publish date.
InitSubmit ==
    /\ clock = 1
    /\ subscription \in
          {[i \in SubIds |->
               IF i = 1
               THEN [StoredSubscription(1, b) EXCEPT !.newsletter = nl]
               ELSE NoRow] : b \in BOOLEAN, nl \in NewsletterIds}
    /\ lastsave = NoSave
    /\ lastupdate = "none"
    /\ submission \in
          {[s \in SubmissionIds |-> IF s = 1 THEN r ELSE NoRow] :
              r \in {SubmissionRow(TRUE, FALSE, FALSE, MaxTime, {1}),
                     SubmissionRow(TRUE, FALSE, FALSE, None, {1})}}
    /\ IdleDelivery
    /\ IdleContent

\* Messages of newsletter 1 are submitted, to which new subscribers come.
NextSubmit ==
    \/ FromMessage(1)
    \/ NewSubscriber(1)
    \/ SubmitDirect(1)
    \/ Submit(1)
    \/ Iterate(1)
    \/ SendMessage(1)
    \/ LoopEnd(1)
    \/ Finally(1)
    \/ QueueReturn(1)
    \/ Tick

SpecSubmit == InitSubmit /\ [][NextSubmit]_vars

\* ------------------------------------------------------------------ crash

\* The process running submit_queue stops (crash or kill): its locals are
\* gone, and neither the except nor the finally block of submit() runs.
Crash(p) ==
    /\ pc[p] # "idle"
    /\ pc' = [pc EXCEPT ![p] = "idle"]
    /\ todo' = [todo EXCEPT ![p] = <<>>]
    /\ self' = [self EXCEPT ![p] = NoRow]
    /\ recipients' = [recipients EXCEPT ![p] = <<>>]
    /\ runlog' = [runlog EXCEPT ![p] = <<>>]
    /\ runs' = IF pc[p] \in {"iterate", "loop", "finally"}
               THEN [runs EXCEPT ![self[p].id].ended = "crashed"]
               ELSE runs
    /\ UNCHANGED <<clock, contentVars, subscriptionVars,
                   submission, outbox, polls, failures, snap>>

\* Submissions to everybody that are due or were sent before.
InitDue ==
    /\ clock = 1
    /\ subscription \in {[i \in SubIds |-> StoredSubscription(i, i \in S)] :
                            S \in SubscribedChoices}
    /\ lastsave = NoSave
    /\ lastupdate = "none"
    /\ submission \in [SubmissionIds ->
                          {SubmissionRow(TRUE, FALSE, FALSE, 0, SubIds),
                           SubmissionRow(TRUE, TRUE, FALSE, 0, SubIds)}]
    /\ IdleDelivery
    /\ IdleContent

\* One submit_queue poller whose process may stop at any point and is
\* started again by the scheduler.
NextCrash ==
    \/ Poll(1)
    \/ Crash(1)
    \/ Tick

SpecCrash == InitDue /\ [][NextCrash]_vars

\* --------------------------------------------------------- repeated polls

\* The scheduler goes on calling submit_queue: the calls are counted anew.
Reschedule ==
    /\ PollsMade = MaxPolls
    /\ \A p \in Pollers : pc[p] = "idle"
    /\ polls' = [p \in Pollers |-> 0]
    /\ UNCHANGED <<clock, contentVars, subscriptionVars, submission, outbox,
                   pc, todo, self, recipients, runlog, failures, snap, runs>>

NextRepeated ==
    \/ Poll(1)
    \/ Reschedule
    \/ Tick

\* One poller that is called again and again and runs every call to its
\* end; at most MaxFailures exceptions are raised in all.
SpecRepeated ==
    /\ InitDue
    /\ [][NextRepeated]_vars
    /\ WF_vars(Poll(1))
    /\ WF_vars(Reschedule)

\* ----------------------------------------------------------------- claims

\* submit() has returned to submit_queue's loop and the next has not begun.
Returned(p) == pc[p] = "queue" /\ self[p] # NoRow

\* The attached subscriptions of s that are subscribed now.
AttachedSubscribed(s) ==
    {r \in SubIds : /\ r \in submission[s].subscriptions
                    /\ subscription[r] # NoRow
                    /\ subscription[r].subscribed}

\* E-mails delivered to r for p's current submission since p selected.
MailedInRun(p, r) == outbox[self[p].id][r] - snap[p].out[self[p].id][r]

NothingFailed(log) == \A k \in 1..Len(log) : log[k][2] = "ok"
NothingRaised(log) == \A k \in 1..Len(log) : log[k][2] # "raised"
SomethingRaised(log) == \E k \in 1..Len(log) : log[k][2] = "raised"
Attempted(log) == {log[k][1] : k \in 1..Len(log)}

\* C1: when a submit_queue poll has returned, submit() was called on exactly
\* the submissions that were prepared, unsent, not sending and had a publish
\* date strictly before now when the poll selected; every other submission
\* has its row as it was and no e-mail was delivered for it.
C1_QueueProcessesExactlyTheDue ==
    \A p \in Pollers :
        (pc[p] = "idle" /\ snap[p] # NoRow) =>
            \A s \in SubmissionIds :
                LET was == snap[p].db[s]
                    due == /\ was.prepared
                           /\ ~was.sent
                           /\ ~was.sending
                           /\ was.publish_date # None
                           /\ was.publish_date < snap[p].now
                IN /\ (s \in snap[p].called) <=> due
                   /\ ~due => /\ submission[s] = was
                              /\ outbox[s] = snap[p].out[s]

\* A returned poll that processed one submission, mailing somebody, and left
\* another, which was sending or not yet due, alone.
C1_Witness ==
    /\ pc[1] = "idle" /\ snap[1] # NoRow
    /\ \E s \in snap[1].called : outbox[s] # snap[1].out[s]
    /\ \E s \in SubmissionIds \ snap[1].called :
          \/ snap[1].db[s].sending
          \/ snap[1].db[s].publish_date >= snap[1].now

\* C2: when submit() returns from a run in which nothing failed, each of the
\* n attached, currently subscribed subscriptions was mailed exactly once,
\* nobody else was mailed, and the stored row has sent and not sending.
C2_AllRecipientsMailedOnce ==
    \A p \in Pollers :
        (Returned(p) /\ NothingFailed(runlog[p])) =>
            LET s == self[p].id IN
            /\ \A r \in SubIds :
                  MailedInRun(p, r) = IF r \in AttachedSubscribed(s) THEN 1 ELSE 0
            /\ submission[s].sent
            /\ ~submission[s].sending

C2_Witness ==
    /\ Returned(1) /\ NothingFailed(runlog[1])
    /\ Cardinality(AttachedSubscribed(self[1].id)) >= 2
    /\ \A r \in AttachedSubscribed(self[1].id) : MailedInRun(1, r) = 1
    /\ submission[self[1].id].sent

\* C3: a run of submit() in which the only failures are failures of the mail
\* send has, when its loop is over, attempted a send to every recipient once;
\* the recipients whose send failed got nothing, the others one e-mail.
C3_SendFailureIsSkipped ==
    \A p \in Pollers :
        (pc[p] \in {"finally", "queue"} /\ self[p] # NoRow
           /\ NothingRaised(runlog[p])) =>
            LET s == self[p].id
                log == runlog[p]
            IN /\ Attempted(log) = AttachedSubscribed(s)
               /\ Len(log) = Cardinality(AttachedSubscribed(s))
               /\ \A k \in 1..Len(log) :
                     MailedInRun(p, log[k][1]) =
                        IF log[k][2] = "ok" THEN 1 ELSE 0

\* The send to the first recipient failed and the second was mailed.
C3_Witness ==
    /\ Returned(1)
    /\ Len(runlog[1]) >= 2
    /\ runlog[1][1][2] = "send_failed"
    /\ runlog[1][2][2] = "ok"
    /\ MailedInRun(1, runlog[1][2][1]) = 1

\* C4 as claimed: a failure of the send to the k-th of n recipients, k < n,
\* ends the run with no further attempt, sent = false and sending = false.
C4_SendFailureAborts ==
    \A p \in Pollers :
        Returned(p) =>
            LET s == self[p].id
                log == runlog[p]
            IN \A k \in 1..Len(log) :
                  (log[k][2] = "send_failed"
                     /\ k < Cardinality(AttachedSubscribed(s))) =>
                      /\ Len(log) = k
                      /\ ~submission[s].sent
                      /\ ~submission[s].sending

\* C4, amended: an exception that send_message does not catch (raised by the
\* rendering, the attachments or the sleeps) for the k-th of n recipients,
\* k < n, ends the run: recipients k+1..n are not attempted and get nothing,
\* and the stored row has sent = false and sending = false.
C4_EscapingFailureAborts ==
    \A p \in Pollers :
        Returned(p) =>
            LET s == self[p].id
                log == runlog[p]
            IN \A k \in 1..Len(log) :
                  (log[k][2] = "raised" /\ log[k][1] # 0
                     /\ k < Cardinality(AttachedSubscribed(s))) =>
                      /\ Len(log) = k
                      /\ \A r \in AttachedSubscribed(s) \ Attempted(log) :
                            MailedInRun(p, r) = 0
                      /\ ~submission[s].sent
                      /\ ~submission[s].sending

C4_Witness ==
    /\ Returned(1)
    /\ Len(runlog[1]) = 1
    /\ runlog[1][1][2] = "raised" /\ runlog[1][1][1] # 0
    /\ Cardinality(AttachedSubscribed(self[1].id)) >= 2
    /\ ~submission[self[1].id].sent
    /\ ~submission[self[1].id].sending

\* C5: every step by which submit() leaves its try block, after the loop ran
\* to its end or after an exception, stores sending = false.
InSubmit(p) == pc[p] \in {"iterate", "loop", "finally"}

C5_SendingClearedOnReturn ==
    [][\A p \in Pollers :
          (InSubmit(p) /\ ~InSubmit(p)') =>
              ~submission'[self[p].id].sending]_vars

\* submit() returned after an exception and after having stored sending = true.
C5_Witness ==
    /\ Returned(1)
    /\ SomethingRaised(runlog[1])
    /\ ~submission[self[1].id].sending
    /\ ~self[1].sending

\* C6 as claimed: the recipients mailed by a run in which nothing fails are
\* the attached (subscribed) subscriptions when some are attached, and the
\* subscribed subscriptions of the submission's newsletter when none is.
C6_RecipientsAttachedOrNewsletter ==
    \A p \in Pollers :
        (Returned(p) /\ NothingFailed(runlog[p])) =>
            LET s == self[p].id
                claimed ==
                    IF submission[s].subscriptions # {}
                    THEN AttachedSubscribed(s)
                    ELSE {r \in SubIds :
                            /\ subscription[r] # NoRow
                            /\ subscription[r].subscribed
                            /\ subscription[r].newsletter =
                                   submission[s].newsletter}
            IN \A r \in SubIds : (MailedInRun(p, r) > 0) <=> (r \in claimed)

\* C7: with two pollers a recipient gets, for one submission, at most one
\* e-mail, one more for each aborted run, and one more for each submit()
\* begun on a row that had changed since its poller selected it.
C7_ExtraMailOnlyFromStaleSelection ==
    \A s \in SubmissionIds, r \in SubIds :
        outbox[s][r] <= 1 + runs[s].aborted + runs[s].stale

\* Both pollers selected s while its stored sending was false, both ran
\* submit() on it, no run aborted, and a recipient was mailed twice.
C7_Witness ==
    \E s \in SubmissionIds, r \in SubIds :
        /\ snap[1] # NoRow /\ snap[2] # NoRow
        /\ s \in snap[1].called /\ s \in snap[2].called
        /\ ~snap[1].db[s].sending /\ ~snap[2].db[s].sending
        /\ ~snap[1].db[s].sent /\ ~snap[2].db[s].sent
        /\ runs[s].aborted = 0
        /\ outbox[s][r] = 2

\* C8: a submit() that an exception aborted leaves the row prepared, unsent
\* and not sending; the next poll selects every submission whose latest run
\* aborted, and its run starts with all attached subscribed recipients, those
\* mailed before included.
C8_AbortedRunIsRetriedFromScratch ==
    \A p \in Pollers :
        /\ (Returned(p) /\ SomethingRaised(runlog[p])) =>
              /\ submission[self[p].id].prepared
              /\ ~submission[self[p].id].sent
              /\ ~submission[self[p].id].sending
        /\ (pc[p] = "queue" /\ self[p] = NoRow /\ snap[p].called = {}) =>
              \A s \in SubmissionIds :
                  runs[s].ended = "aborted" =>
                      \E k \in 1..Len(todo[p]) : todo[p][k].id = s
        /\ (pc[p] = "loop" /\ runlog[p] = <<>>
              /\ runs[self[p].id].ended = "aborted") =>
              /\ {recipients[p][k] : k \in 1..Len(recipients[p])} =
                     AttachedSubscribed(self[p].id)
              /\ Len(recipients[p]) = Cardinality(AttachedSubscribed(self[p].id))

\* A recipient mailed in the aborted run was mailed again in the retry.
C8_Witness ==
    \E s \in SubmissionIds, r \in SubIds :
        /\ runs[s].aborted = 1
        /\ runs[s].ended = "completed"
        /\ outbox[s][r] = 2

\* C9: every stored subscription has exactly one of user and e-mail set, and
\* a save() of an instance with both or neither set fails its assertion and
\* leaves the row as it was.
C9_ExactlyOneOfUserAndEmail ==
    /\ \A i \in SubIds :
          subscription[i] # NoRow =>
              (subscription[i].user # NoUser) #
                  (subscription[i].email_field \notin {NullEmail, ""})
    /\ lastsave.pk # 0 =>
          LET u == lastsave.inst.user # NoUser
              e == lastsave.inst.email_field \notin {NullEmail, ""}
          IN (u = e) => /\ lastsave.result = "AssertionError"
                        /\ subscription[lastsave.pk] = lastsave.old

\* A stored subscription was saved again with both user and e-mail set: the
\* assertion failed and the row is as it was.
C9_Witness ==
    /\ lastsave.pk # 0
    /\ lastsave.old # NoRow
    /\ lastsave.inst.user # NoUser
    /\ lastsave.inst.email_field = "a@example.org"
    /\ lastsave.result = "AssertionError"
    /\ subscription[lastsave.pk] = lastsave.old

\* C10 as claimed: after a save() of an instance (new or stored) that passes
\* the identity assertions, with subscribed true on the instance and false in
\* the stored row (or no stored row), the row has subscribed = true, the time
\* of the save as subscribe_date, unsubscribed = false and no
\* unsubscribe_date.
C10_SubscribeTransition ==
    (/\ lastsave.pk # 0
     /\ (lastsave.inst.user # NoUser) #
            (lastsave.inst.email_field \notin {NullEmail, ""})
     /\ lastsave.inst.subscribed
     /\ lastsave.old = NoRow \/ ~lastsave.old.subscribed
     /\ lastsave.result # "IntegrityError") =>
        LET row == subscription[lastsave.pk]
        IN /\ row # NoRow
           /\ row.subscribed
           /\ row.subscribe_date = lastsave.at
           /\ ~row.unsubscribed
           /\ row.unsubscribe_date = None

\* The latest save() was of an instance that passes the identity assertions
\* and hit no unique constraint.
SaveWellFormed ==
    /\ lastsave.pk # 0
    /\ (lastsave.inst.user # NoUser) #
           (lastsave.inst.email_field \notin {NullEmail, ""})
    /\ lastsave.result # "IntegrityError"

\* C11 as claimed: after a save() of an instance (new or stored) with
\* unsubscribed true on the instance and false in the stored row (or no
\* stored row), subscribed not being switched on in the same save, the row
\* has unsubscribed = true, the time of the save as unsubscribe_date,
\* subscribed = false and no subscribe_date.
C11_UnsubscribeTransition ==
    (/\ SaveWellFormed
     /\ lastsave.inst.unsubscribed
     /\ lastsave.old = NoRow \/ ~lastsave.old.unsubscribed
     /\ ~lastsave.inst.subscribed
          \/ (lastsave.old # NoRow /\ lastsave.old.subscribed)) =>
        LET row == subscription[lastsave.pk]
        IN /\ row # NoRow
           /\ row.unsubscribed
           /\ row.unsubscribe_date = lastsave.at
           /\ ~row.subscribed
           /\ row.subscribe_date = None

\* C12: no stored subscription has subscribed and unsubscribed both true.
C12_NeverSubscribedAndUnsubscribed ==
    \A i \in SubIds :
        subscription[i] # NoRow =>
            ~(subscription[i].subscribed /\ subscription[i].unsubscribed)

\* An instance with both flags assigned true was saved and stored.
C12_Witness ==
    /\ lastsave.pk # 0
    /\ lastsave.inst.subscribed /\ lastsave.inst.unsubscribed
    /\ lastsave.result = "saved"
    /\ subscription[lastsave.pk] # NoRow
    /\ subscription[lastsave.pk].subscribed
    /\ ~subscription[lastsave.pk].unsubscribed

\* C13 as claimed: an Article saved with no sortorder is stored with 10 when
\* its message has no articles yet and otherwise with the maximum sortorder
\* of the message's articles plus 10, which is above every sortorder stored
\* for that message before.
C13_SortorderAutoAssigned ==
    (lastarticle.post # 0 /\ lastarticle.given = None) =>
        LET before == lastarticle.before
            stored == article[lastarticle.post]
        IN /\ lastarticle.result = "saved"
           /\ Len(stored) = Len(before) + 1
           /\ \/ before = <<>> /\ stored[Len(stored)] = 10
              \/ /\ before # <<>>
                 /\ \E k \in 1..Len(before) :
                       /\ \A j \in 1..Len(before) : before[j] <= before[k]
                       /\ stored[Len(stored)] = before[k] + 10
           /\ \A k \in 1..Len(before) : before[k] < stored[Len(stored)]

\* C14 as claimed: get_templates(action) fails its assertion for every
\* action that is not subscribe, unsubscribe or update, "message" included.
C14_MessageActionFails ==
    (/\ templates.caller = "get_templates"
     /\ templates.action \notin {"subscribe", "unsubscribe", "update"}) =>
        templates.result.raised = "AssertionError"

\* C14, amended: get_templates(action) fails its assertion exactly for the
\* actions other than subscribe, unsubscribe, update and "message"; the
\* action "message", which a message's _templates asks for, passes it.
C14_UnknownActionFails ==
    templates.caller # "none" =>
        (templates.result.raised = "AssertionError" <=>
            templates.action \notin
                {"subscribe", "unsubscribe", "update", "message"})

\* A message's _templates got its templates from get_templates('message').
C14_Witness ==
    /\ templates.caller = "_templates"
    /\ templates.action = "message"
    /\ templates.result.raised = "none"

\* C15: submit() on a submission whose publish date is not strictly before
\* now fails its assertion and leaves submit() with nothing changed: the
\* instance and every stored row are as they were and no e-mail was sent.
C15_FutureSubmitChangesNothing ==
    [][\A p \in Pollers :
          (/\ pc[p] = "submit" /\ pc'[p] # "submit"
           /\ self[p].publish_date # None
           /\ self[p].publish_date >= clock) =>
              /\ runlog'[p] = <<<<0, "AssertionError">>>>
              /\ pc'[p] = "idle"
              /\ self'[p] = self[p]
              /\ submission' = submission
              /\ outbox' = outbox]_vars

\* submit() of an unsent, not sending submission due now or later has failed
\* its assertion; the row is neither sending nor sent and nothing was mailed.
C15_Witness ==
    /\ pc[1] = "idle"
    /\ runlog[1] = <<<<0, "AssertionError">>>>
    /\ self[1] # NoRow
    /\ self[1].publish_date >= clock
    /\ ~submission[self[1].id].sending
    /\ ~submission[self[1].id].sent
    /\ \A r \in SubIds : outbox[self[1].id][r] = 0

\* C16: with one submit_queue poller every stored submission that is sending
\* is prepared and not sent, none is sent and sending, and a step changes a
\* stored status only from prepared to sending, from sending to sent or from
\* sending back to prepared.
C16_StatusMovesAlongLifecycle ==
    /\ [](\A s \in SubmissionIds :
            /\ submission[s].sending =>
                  (submission[s].prepared /\ ~submission[s].sent)
            /\ submission[s].sent => ~submission[s].sending)
    /\ [][\A s \in SubmissionIds :
            LET was == <<submission[s].prepared, submission[s].sending,
                         submission[s].sent>>
                is == <<submission'[s].prepared, submission'[s].sending,
                        submission'[s].sent>>
            IN \/ is = was
               \/ was = <<TRUE, FALSE, FALSE>> /\ is = <<TRUE, TRUE, FALSE>>
               \/ was = <<TRUE, TRUE, FALSE>> /\ is = <<TRUE, FALSE, TRUE>>
               \/ was = <<TRUE, TRUE, FALSE>> /\ is = <<TRUE, FALSE, FALSE>>]_vars

\* One submission was sent and another went back to prepared after an
\* aborted run.
C16_Witness ==
    \E s, t \in SubmissionIds :
        /\ runs[s].ended = "completed"
        /\ submission[s].sent /\ ~submission[s].sending
        /\ runs[t].ended = "aborted"
        /\ submission[t].prepared
        /\ ~submission[t].sent /\ ~submission[t].sending

\* C17: from_message stores a pending submission (not prepared, not sent,
\* not sending) of the message's newsletter to exactly the subscriptions of
\* that newsletter that are subscribed at that time; the attached set of a
\* stored submission never changes afterwards, and only attached
\* subscriptions are mailed for it.
C17_FromMessageSnapshotsSubscribers ==
    [][\A s \in SubmissionIds :
          /\ (submission[s] = NoRow /\ submission'[s] # NoRow) =>
                /\ ~submission'[s].prepared
                /\ ~submission'[s].sent
                /\ ~submission'[s].sending
                /\ submission'[s].subscriptions =
                      {r \in SubIds :
                          /\ subscription[r] # NoRow
                          /\ subscription[r].subscribed
                          /\ subscription[r].newsletter =
                                 submission'[s].newsletter}
          /\ submission[s] # NoRow =>
                /\ submission'[s].subscriptions = submission[s].subscriptions
                /\ \A r \in SubIds :
                      outbox'[s][r] # outbox[s][r] =>
                          r \in submission[s].subscriptions]_vars

\* A submission made by from_message was sent to its attached subscriber,
\* and a subscriber of its newsletter who subscribed after from_message is
\* not attached and got nothing.
C17_Witness ==
    \E s \in SubmissionIds, r, late \in SubIds :
        /\ submission[s] # NoRow
        /\ submission[s].sent
        /\ ~submission[s].prepared
        /\ r \in submission[s].subscriptions
        /\ outbox[s][r] = 1
        /\ subscription[late] # NoRow
        /\ subscription[late].subscribed
        /\ subscription[late].newsletter = submission[s].newsletter
        /\ subscription[late].subscribe_date >= submission[s].publish_date
        /\ late \notin submission[s].subscriptions
        /\ outbox[s][late] = 0

\* C18: a stored subscription that has subscribed or unsubscribed true is
\* never brought back to subscribed = false and unsubscribed = false.
C18_NeverBackToNeverSubscribed ==
    [][\A i \in SubIds :
          (/\ subscription[i] # NoRow
           /\ subscription[i].subscribed \/ subscription[i].unsubscribed) =>
              /\ subscription'[i] # NoRow
              /\ subscription'[i].subscribed \/ subscription'[i].unsubscribed]_vars

\* A stored subscription with a flag set was saved with both flags assigned
\* false, and the stored row still has its flag.
C18_Witness ==
    /\ lastsave.pk # 0
    /\ lastsave.old # NoRow
    /\ lastsave.old.subscribed \/ lastsave.old.unsubscribed
    /\ ~lastsave.inst.subscribed /\ ~lastsave.inst.unsubscribed
    /\ (lastsave.inst.user # NoUser) #
           (lastsave.inst.email_field \notin {NullEmail, ""})
    /\ subscription[lastsave.pk].subscribed
          \/ subscription[lastsave.pk].unsubscribed

\* C19 as claimed: after update(action) on a stored subscription the row has
\* subscribed and not unsubscribed for subscribe and update, unsubscribed and
\* not subscribed for unsubscribe, and for any other action the assertion
\* failed and the row is as it was.
C19_UpdateMapsActionToFlags ==
    (lastupdate # "none" /\ lastsave.old # NoRow) =>
        LET row == subscription[lastsave.pk]
        IN /\ lastupdate \in {"subscribe", "update"} =>
                 (row.subscribed /\ ~row.unsubscribed)
           /\ lastupdate = "unsubscribe" =>
                 (row.unsubscribed /\ ~row.subscribed)
           /\ lastupdate \notin {"subscribe", "update", "unsubscribe"} =>
                 (lastsave.result = "AssertionError" /\ row = lastsave.old)

\* C20 as claimed: a save() of a stored subscription with unsubscribed
\* changed from true to false subscribes it, one with subscribed changed
\* from true to false (and unsubscribed as stored) unsubscribes it, and one
\* in which both the subscribe and the unsubscribe condition hold subscribes
\* it.
C20_ImplicitTransitions ==
    (SaveWellFormed /\ lastsave.old # NoRow) =>
        LET row == subscription[lastsave.pk]
            old == lastsave.old
            inst == lastsave.inst
        IN /\ (old.unsubscribed /\ ~inst.unsubscribed) =>
                 (row.subscribed /\ ~row.unsubscribed)
           /\ (/\ old.subscribed /\ ~inst.subscribed
               /\ inst.unsubscribed = old.unsubscribed) =>
                 (~row.subscribed /\ row.unsubscribed)
           /\ (/\ \/ inst.subscribed /\ ~old.subscribed
                  \/ old.unsubscribed /\ ~inst.unsubscribed
               /\ \/ inst.unsubscribed /\ ~old.unsubscribed
                  \/ old.subscribed /\ ~inst.subscribed) =>
                 (row.subscribed /\ ~row.unsubscribed)

\* C21: with one submit_queue poller, a step taken while a submission is
\* stored with sent = true changes neither its prepared, sent and sending
\* flags nor the e-mails delivered for it.
C21_SentIsTerminal ==
    [][\A s \in SubmissionIds :
          submission[s].sent =>
              /\ submission'[s].prepared = submission[s].prepared
              /\ submission'[s].sent
              /\ submission'[s].sending = submission[s].sending
              /\ outbox'[s] = outbox[s]]_vars

\* A submission was sent by one poll, and a later poll, made when it was
\* stored as sent, has returned without calling submit() on it or mailing
\* anybody for it.
C21_Witness ==
    \E s \in SubmissionIds :
        /\ runs[s].ended = "completed"
        /\ \E r \in SubIds : outbox[s][r] = 1
        /\ pc[1] = "idle" /\ snap[1] # NoRow
        /\ snap[1].db[s].sent
        /\ snap[1].out[s] = outbox[s]
        /\ s \notin snap[1].called
        /\ submission[s].sent /\ ~submission[s].sending

\* C22: a submission whose submit() was stopped after sending = true was
\* stored and before the final save stays stored with sending = true and
\* sent = false, no poll has it in its selection or runs submit() on it, and
\* no step changes its row or mails anybody for it.
C22_CrashedRunStaysSending ==
    /\ [](\A s \in SubmissionIds :
            runs[s].ended = "crashed" =>
                /\ submission[s].sending
                /\ ~submission[s].sent
                /\ \A p \in Pollers :
                      /\ \A k \in 1..Len(todo[p]) : todo[p][k].id # s
                      /\ self[p] # NoRow => self[p].id # s)
    /\ [][\A s \in SubmissionIds :
            runs[s].ended = "crashed" =>
                /\ submission'[s] = submission[s]
                /\ outbox'[s] = outbox[s]]_vars

\* submit() was stopped after it had mailed a recipient; a later poll, made
\* when the row was due but for sending = true, has returned without
\* calling submit() on it.
C22_Witness ==
    \E s \in SubmissionIds :
        /\ runs[s].ended = "crashed"
        /\ \E r \in SubIds : outbox[s][r] = 1
        /\ pc[1] = "idle" /\ snap[1] # NoRow
        /\ snap[1].db[s].sending
        /\ snap[1].db[s].prepared /\ ~snap[1].db[s].sent
        /\ snap[1].db[s].publish_date < snap[1].now
        /\ snap[1].out[s] = outbox[s]
        /\ s \notin snap[1].called
        /\ submission[s].sending /\ ~submission[s].sent

\* C23: after save() or update() of a stored subscription with its flags
\* as stored, the stored subscribe_date of a subscribed subscription and the
\* stored unsubscribe_date of an unsubscribed one are what they were.
C23_ResaveKeepsDates ==
    (lastsave.pk # 0 /\ lastsave.old # NoRow) =>
        LET row == subscription[lastsave.pk]
            old == lastsave.old
            inst == lastsave.inst
        IN /\ (/\ old.subscribed /\ inst.subscribed
               /\ inst.unsubscribed = old.unsubscribed) =>
                 row.subscribe_date = old.subscribe_date
           /\ (/\ old.unsubscribed /\ inst.unsubscribed
               /\ inst.subscribed = old.subscribed) =>
                 row.unsubscribe_date = old.unsubscribe_date

\* update('subscribe') was called on a subscription subscribed at an earlier
\* time, and the stored subscribe_date is still that time.
C23_Witness ==
    /\ lastsave.pk # 0
    /\ lastsave.old # NoRow
    /\ lastupdate = "subscribe"
    /\ lastsave.old.subscribed /\ ~lastsave.old.unsubscribed
    /\ lastsave.old.subscribe_date # None
    /\ lastsave.at > lastsave.old.subscribe_date
    /\ subscription[lastsave.pk].subscribe_date = lastsave.old.subscribe_date

\* The row matches the filter of submit_queue at the present time.
Due(s) == Selected(submission[s], clock)

====
